---- MODULE Spec2Model ----
(***************************************************************************)
(* oc-metrics: the migration engine (dal/migrator), the sqlite storage     *)
(* backend (dal/sqlite.rs) and the gRPC service layer (server.rs).         *)
(*                                                                         *)
(* Strings are sequences of byte values (their UTF-8 encoding), so that    *)
(* sorting, SQL text comparison and LIKE are computed on the text.         *)
(***************************************************************************)
EXTENDS Integers, Sequences, FiniteSets, TLC

\* ------------------------------------------------------------------ bounds
\* apply() is executed at most this many times per migration in one run of
\* the model (a crash loop could otherwise re-execute without end).
MaxApplyCalls == 2
\* rows of the Metrics table
MaxRows == 2
\* entries of one RecordMetrics request
MaxBatch == 2
\* ticks of the wall clock
MaxClock == 1

\* ----------------------------------------------------------------- strings
\* byte-wise lexicographic order: Ord for str / Cow<str>, and SQLite's
\* BINARY collation on TEXT values
RECURSIVE StrLess(_, _)
StrLess(a, b) ==
    IF b = <<>> THEN FALSE
    ELSE IF a = <<>> THEN TRUE
    ELSE IF Head(a) # Head(b) THEN Head(a) < Head(b)
    ELSE StrLess(Tail(a), Tail(b))

\* Vec::sort() on a vector of distinct strings
RECURSIVE SortStrings(_)
SortStrings(S) ==
    IF S = {} THEN <<>>
    ELSE LET x == CHOOSE x \in S : \A y \in S : x = y \/ StrLess(x, y)
         IN  <<x>> \o SortStrings(S \ {x})

Range(s) == {s[k] : k \in 1..Len(s)}

\* s is an ordered prefix of t
IsPrefix(s, t) == Len(s) <= Len(t) /\ \A k \in 1..Len(s) : s[k] = t[k]

\* ------------------------------------------------------- migration engine
\* The migration files that a build may embed: "1", "10", "2", "3"
\* (sorted as strings: "1" < "10" < "2" < "3").
MigrationNames == {<<49>>, <<49, 48>>, <<50>>, <<51>>}

\* E::get(name): the embedded bytes, if any. "1" creates a table
\* unconditionally, "10" creates one IF NOT EXISTS, "2" is not UTF-8, and
\* "3" is listed by E::iter() but E::get returns None for it.
Content(n) ==
    IF n = <<51>> THEN [found |-> FALSE, utf8 |-> FALSE, sql |-> "none"]
    ELSE IF n = <<50>> THEN [found |-> TRUE, utf8 |-> FALSE, sql |-> "none"]
    ELSE IF n = <<49, 48>>
    THEN [found |-> TRUE, utf8 |-> TRUE, sql |-> "create_if_not_exists"]
    ELSE [found |-> TRUE, utf8 |-> TRUE, sql |-> "create"]

\* the migration of the service's embedded set that creates the Metrics
\* table: "1"
MetricsMigration == <<49>>

\* the files the service's build embeds (migrations/sqlite): "1" and
\* "10", both fetched and decoded
Build == {<<49>>, <<49, 48>>}

\* the Metrics table exists: the migration that creates it has been
\* executed on the connection
TableExists(sch) == MetricsMigration \in sch

\* Option<T>: None, Some(x)
None == {}
Some(x) == {x}
Unwrap(o) == CHOOSE x \in o : TRUE

\* ---------------------------------------------------------------- chrono
\* DateTime<Utc>: days since 1970-01-01, second of the day, nanosecond
DateTime(days, sod, nano) == [days |-> days, sod |-> sod, nano |-> nano]

\* Ord for DateTime<Utc>: the order of the instants
TimeLess(a, b) ==
    \/ a.days < b.days
    \/ a.days = b.days /\ a.sod < b.sod
    \/ a.days = b.days /\ a.sod = b.sod /\ a.nano < b.nano

\* the proleptic Gregorian date of a day number (NaiveDate)
CivilFromDays(days) ==
    LET z   == days + 719468
        era == z \div 146097
        doe == z - era * 146097
        yoe == (doe - doe \div 1460 + doe \div 36524 - doe \div 146096) \div 365
        doy == doe - (365 * yoe + yoe \div 4 - yoe \div 100)
        mp  == (5 * doy + 2) \div 153
        d   == doy - (153 * mp + 2) \div 5 + 1
        m   == IF mp < 10 THEN mp + 3 ELSE mp - 9
        y   == yoe + era * 400 + (IF m <= 2 THEN 1 ELSE 0)
    IN  [year |-> y, month |-> m, day |-> d]

\* NaiveDate::from_ymd: the day number of a date
DaysFromCivil(y, m, d) ==
    LET yy  == IF m <= 2 THEN y - 1 ELSE y
        era == yy \div 400
        yoe == yy - era * 400
        mp  == IF m > 2 THEN m - 3 ELSE m + 9
        doy == (153 * mp + 2) \div 5 + d - 1
        doe == yoe * 365 + yoe \div 4 - yoe \div 100 + doy
    IN  era * 146097 + doe - 719468

\* {:0w} of a natural number: w decimal digits, zero padded
RECURSIVE Pad(_, _)
Pad(n, w) == IF w = 0 THEN <<>> ELSE Pad(n \div 10, w - 1) \o <<48 + (n % 10)>>

\* the digits {:+05} prints after the sign: four, or as many as n has
RECURSIVE YearDigits(_)
YearDigits(n) == IF n < 10000 THEN 4 ELSE 1 + YearDigits(n \div 10)

\* Debug for NaiveDate: "{:04}-{:02}-{:02}" for the years 0..9999 and
\* "{:+05}-{:02}-{:02}" (the sign and the digits of |year|) for the others
FormatDate(c) ==
    (IF 0 <= c.year /\ c.year <= 9999
        THEN Pad(c.year, 4)
        ELSE IF c.year < 0
        THEN <<45>> \o Pad(0 - c.year, YearDigits(0 - c.year))
        ELSE <<43>> \o Pad(c.year, YearDigits(c.year)))
    \o <<45>> \o Pad(c.month, 2) \o <<45>> \o Pad(c.day, 2)

\* Debug for NaiveTime: "{:02}:{:02}:{:02}" and the shortest of no, 3, 6 or
\* 9 fraction digits; a nanosecond of 10^9 or more is a leap second, shown
\* as second 60
FormatTime(sod, nano) ==
    LET leap == nano >= 1000000000
        frac == IF leap THEN nano - 1000000000 ELSE nano
    IN  Pad(sod \div 3600, 2) \o <<58>> \o Pad(((sod \div 60) % 60), 2) \o <<58>>
        \o Pad((sod % 60) + (IF leap THEN 1 ELSE 0), 2)
        \o (IF frac = 0 THEN <<>>
            ELSE IF frac % 1000000 = 0 THEN <<46>> \o Pad(frac \div 1000000, 3)
            ELSE IF frac % 1000 = 0 THEN <<46>> \o Pad(frac \div 1000, 6)
            ELSE <<46>> \o Pad(frac, 9))

\* DateTime<Utc>::to_rfc3339(): date, "T", time, "+00:00"
to_rfc3339(t) ==
    FormatDate(CivilFromDays(t.days)) \o <<84>> \o FormatTime(t.sod, t.nano)
    \o <<43, 48, 48, 58, 48, 48>>

IsDigit(c) == 48 <= c /\ c <= 57

\* the value of a string of decimal digits
RECURSIVE Number(_)
Number(s) == IF s = <<>> THEN 0 ELSE Number(SubSeq(s, 1, Len(s) - 1)) * 10
                                     + (s[Len(s)] - 48)

AllDigits(s) == \A k \in 1..Len(s) : IsDigit(s[k])

\* the number of leading decimal digits of s
RECURSIVE DigitRun(_)
DigitRun(s) == IF s = <<>> \/ ~IsDigit(Head(s)) THEN 0 ELSE 1 + DigitRun(Tail(s))

\* nanoseconds of the fraction digits f (at most 9 are significant)
FractionNanos(f) ==
    LET g == IF Len(f) > 9 THEN SubSeq(f, 1, 9) ELSE f
    IN  Number(g \o [k \in 1..(9 - Len(g)) |-> 48])

\* the number of days of month mo in year y
DaysInMonth(y, mo) ==
    IF mo = 2
    THEN (IF y % 4 = 0 /\ (y % 100 # 0 \/ y % 400 = 0) THEN 29 ELSE 28)
    ELSE IF mo \in {4, 6, 9, 11} THEN 30 ELSE 31

\* the offset of an RFC 3339 text in seconds east of UTC: "Z", "z" or
\* a sign, two hour digits (at most 23), ":" and two minute digits (at
\* most 59); the sign is "+", "-" or U+2212 MINUS SIGN (the bytes E2 88
\* 92); None for anything else
OffsetSeconds(off) ==
    IF off \in {<<90>>, <<122>>} THEN Some(0)
    ELSE LET minus == <<226, 136, 146>>
             long  == Len(off) = 8 /\ SubSeq(off, 1, 3) = minus
             hm    == IF long THEN SubSeq(off, 4, 8)
                      ELSE SubSeq(off, 2, Len(off))
         IN  IF ~( /\ long \/ (Len(off) = 6 /\ off[1] \in {43, 45})
                   /\ AllDigits(SubSeq(hm, 1, 2)) /\ hm[3] = 58
                   /\ AllDigits(SubSeq(hm, 4, 5)) ) THEN None
             ELSE LET oh == Number(SubSeq(hm, 1, 2))
                      om == Number(SubSeq(hm, 4, 5))
                  IN  IF oh > 23 \/ om > 59 THEN None
                      ELSE Some((IF long \/ off[1] = 45 THEN 0 - 1 ELSE 1)
                                    * (oh * 3600 + om * 60))

\* DateTime::parse_from_rfc3339(s).with_timezone(&Utc): exactly four year
\* digits, "-MM-DD", "T", "t" or a space, "HH:MM:SS", an optional fraction
\* and the offset; the date must exist, second 60 is read as a leap second
\* (second 59 with 10^9 added to the nanoseconds), and the local time is
\* moved to UTC by the offset; anything else is a ParseError (None here)
parse_from_rfc3339(s) ==
    IF Len(s) < 20 THEN None
    ELSE IF ~( /\ AllDigits(SubSeq(s, 1, 4)) /\ s[5] = 45
               /\ AllDigits(SubSeq(s, 6, 7)) /\ s[8] = 45
               /\ AllDigits(SubSeq(s, 9, 10)) /\ s[11] \in {84, 116, 32}
               /\ AllDigits(SubSeq(s, 12, 13)) /\ s[14] = 58
               /\ AllDigits(SubSeq(s, 15, 16)) /\ s[17] = 58
               /\ AllDigits(SubSeq(s, 18, 19)) ) THEN None
    ELSE LET rest == SubSeq(s, 20, Len(s))
             frac == IF rest # <<>> /\ Head(rest) = 46
                     THEN SubSeq(rest, 2, 1 + DigitRun(Tail(rest))) ELSE <<>>
             off  == IF rest # <<>> /\ Head(rest) = 46
                     THEN SubSeq(rest, 2 + Len(frac), Len(rest)) ELSE rest
             yy == Number(SubSeq(s, 1, 4))
             mo == Number(SubSeq(s, 6, 7))
             dd == Number(SubSeq(s, 9, 10))
             hh == Number(SubSeq(s, 12, 13))
             mi == Number(SubSeq(s, 15, 16))
             ss == Number(SubSeq(s, 18, 19))
         IN  IF (rest # <<>> /\ Head(rest) = 46 /\ frac = <<>>)
                \/ OffsetSeconds(off) = None
                \/ mo \notin 1..12 \/ dd < 1 \/ dd > DaysInMonth(yy, mo)
                \/ hh > 23 \/ mi > 59 \/ ss > 60
             THEN None
             ELSE LET local == hh * 3600 + mi * 60 + (IF ss = 60 THEN 59 ELSE ss)
                      utc   == local - Unwrap(OffsetSeconds(off))
                  IN  Some(DateTime(DaysFromCivil(yy, mo, dd) + (utc \div 86400),
                                    utc % 86400,
                                    FractionNanos(frac)
                                        + (IF ss = 60 THEN 1000000000 ELSE 0)))

\* ----------------------------------------------------------------- SQLite
\* ASCII upper case of a byte: LIKE ignores the case of ASCII letters
Upper(c) == IF 97 <= c /\ c <= 122 THEN c - 32 ELSE c

\* the number of leading UTF-8 continuation bytes (10xxxxxx) of s
RECURSIVE ContinuationRun(_)
ContinuationRun(s) ==
    IF s = <<>> \/ Head(s) < 128 \/ Head(s) > 191 THEN 0
    ELSE 1 + ContinuationRun(Tail(s))

\* the number of bytes of the first character of the non-empty UTF-8
\* text s: a lead byte of 0xC0 or more takes the continuation bytes after it
CharLen(s) == IF Head(s) >= 192 THEN 1 + ContinuationRun(Tail(s)) ELSE 1

\* s without its first character
DropChar(s) == SubSeq(s, CharLen(s) + 1, Len(s))

\* sqlite3Utf8Trans1: the payload bits of a lead byte of 0xC0 or more
Utf8Trans1(b) ==
    IF b < 224 THEN b - 192
    ELSE IF b < 240 THEN b - 224
    ELSE IF b < 248 THEN b - 240
    ELSE IF b < 252 THEN b - 248
    ELSE IF b < 254 THEN b - 252
    ELSE 0

\* c = (c << 6) + (0x3f & byte) over the continuation bytes cs
RECURSIVE Utf8Fold(_, _)
Utf8Fold(c, cs) ==
    IF cs = <<>> THEN c ELSE Utf8Fold(c * 64 + (Head(cs) - 128), Tail(cs))

\* sqlite3Utf8Read: the character the non-empty text s begins with. A byte
\* below 0xC0 stands for itself; a lead byte takes its continuation bytes,
\* and a result below 0x80, a surrogate, U+FFFE or U+FFFF reads as U+FFFD
sqlite3Utf8Read(s) ==
    IF Head(s) < 192 THEN Head(s)
    ELSE LET c == Utf8Fold(Utf8Trans1(Head(s)), SubSeq(s, 2, CharLen(s)))
         IN  IF c < 128 \/ (55296 <= c /\ c <= 57343) \/ c \in {65534, 65535}
             THEN 65533 ELSE c

\* the text z is at its end for like(): it reads its operands as C
\* strings, so a NUL byte ends the text
AtEnd(z) == z = <<>> \/ Head(z) = 0

\* patternCompare for LIKE without ESCAPE: it reads pattern and string
\* character by character; % matches any run of characters, _ any one
\* character, and any other character itself or, when both are ASCII, its
\* other case
RECURSIVE patternCompare(_, _)
patternCompare(zPattern, zString) ==
    IF AtEnd(zPattern) THEN AtEnd(zString)
    ELSE LET c == sqlite3Utf8Read(zPattern) IN
         IF c = 37
         THEN patternCompare(DropChar(zPattern), zString)
              \/ (~AtEnd(zString) /\ patternCompare(zPattern, DropChar(zString)))
         ELSE IF AtEnd(zString) THEN FALSE
         ELSE LET c2 == sqlite3Utf8Read(zString) IN
              /\ \/ c = c2
                 \/ c < 128 /\ c2 < 128 /\ Upper(c) = Upper(c2)
                 \/ c = 95
              /\ patternCompare(DropChar(zPattern), DropChar(zString))

\* SQLITE_MAX_LIKE_PATTERN_LENGTH: the longest pattern, in bytes, like()
\* accepts
MaxLikePatternLength == 50000

\* like() fails with "LIKE or GLOB pattern too complex": the pattern's
\* byte length (NUL bytes and what follows them included) exceeds the limit
PatternTooComplex(pat) == Len(pat) > MaxLikePatternLength

\* the SQL operator `s LIKE pat` on the UTF-8 texts s and pat, for a
\* pattern within the length limit
Like(pat, s) == patternCompare(pat, s)

\* str::starts_with: name begins with prefix
StartsWith(name, prefix) ==
    Len(prefix) <= Len(name) /\ SubSeq(name, 1, Len(prefix)) = prefix

\* --------------------------------------------------------- storage backend
\* MetricValue::Double(d) for a number d, MetricValue::Double(f64::NAN)
\* and MetricValue::String(s)
Double(d) == [tag |-> "Double", nan |-> FALSE, num |-> d, text |-> <<>>]
DoubleNaN == [tag |-> "Double", nan |-> TRUE, num |-> 0, text |-> <<>>]
String(s) == [tag |-> "String", nan |-> FALSE, num |-> 0, text |-> s]

Metric(name, when, value) == [name |-> name, when |-> when, value |-> value]

\* 2018-, 2019-, 2020-01-26T18:30:09.453829Z (the tests' instants), the
\* whole second 2019-01-26T18:30:09Z and 10000-01-01T00:00:00Z
T2018 == DateTime(17557, 66609, 453829000)
T2019 == DateTime(17922, 66609, 453829000)
T2019s == DateTime(17922, 66609, 0)
T2020 == DateTime(18287, 66609, 453829000)
T10000 == DateTime(2932897, 0, 0)
Times == {T2018, T2019, T2019s, T2020, T10000}

\* metric names "a.b" and "A_b"; query prefixes "", "a.", "a_", "A", "%b"
MetricNames == {<<97, 46, 98>>, <<65, 95, 98>>}
Prefixes == {<<>>, <<97, 46>>, <<97, 95>>, <<65>>, <<37, 98>>}
\* a prefix of 50000 bytes: with the % appended the pattern is too long
LongPrefix == [k \in 1..MaxLikePatternLength |-> 97]
\* the prefixes of the storage specification: those above, "a.b" followed
\* by a NUL byte, and the long one
StorePrefixes == Prefixes \cup {<<97, 46, 98, 0>>, LongPrefix}
MetricValues == {Double(23), String(<<120>>)}
\* the metrics written in the storage specification: "a.b" = 23.0 at each
\* instant, "A_b" = "x", and "a.b" = NaN
Metrics ==
    {Metric(<<97, 46, 98>>, t, Double(23)) : t \in Times}
    \cup {Metric(<<65, 95, 98>>, T2019, String(<<120>>)),
          Metric(<<97, 46, 98>>, T2018, DoubleNaN)}
\* those of them whose Unix seconds fit the integers of the model
ListedMetrics == {m \in Metrics : m.when # T10000}
\* the bounds a range query may give
Bounds == {None, Some(T2018), Some(T2019s), Some(T2020)}

\* the row write_metric inserts: the variant picks value_type and fills
\* the unused payload column with 0.0 or ""; a column holds Some(value) or
\* None for NULL, and SQLite stores a NaN bound to dvalue as NULL
RowOf(metric) ==
    [name |-> metric.name,
     time |-> to_rfc3339(metric.when),
     value_type |-> IF metric.value.tag = "Double" THEN "double" ELSE "string",
     dvalue |-> IF metric.value.tag # "Double" THEN Some(0)
                ELSE IF metric.value.nan THEN None
                ELSE Some(metric.value.num),
     tvalue |-> IF metric.value.tag = "Double" THEN Some(<<>>)
                ELSE Some(metric.value.text)]

\* mutant: the insert replaces the rows stored under the metric's name
Insert_Upsert(tbl, metric) ==
    Append(SelectSeq(tbl, LAMBDA r : r.name # metric.name), RowOf(metric))

\* INSERT INTO Metrics (name, time, value_type, dvalue, tvalue): the table
\* with the metric's row added
Insert(tbl, metric) == Append(tbl, RowOf(metric))

\* the WHERE clause of read_metrics: name LIKE prefix || '%', and the text
\* comparisons time > :start, time < :stop when the bounds are given
Selected(row, prefix, start, stop) ==
    /\ Like(prefix \o <<37>>, row.name)
    /\ start # None => StrLess(to_rfc3339(Unwrap(start)), row.time)
    /\ stop # None => StrLess(row.time, to_rfc3339(Unwrap(stop)))

\* the value a row decodes to: row.get(3)? as f64 for a "double" row and
\* row.get(4)? as String for any other; None when the column read is NULL
\* and the typed read fails
ValueOf(row) ==
    IF row.value_type = "double"
    THEN (IF row.dvalue = None THEN None ELSE Some(Double(Unwrap(row.dvalue))))
    ELSE (IF row.tvalue = None THEN None ELSE Some(String(Unwrap(row.tvalue))))

\* the rows of tbl the query selects, in row order (for a pattern within
\* the length limit; a longer one fails the query, see ReadMetrics)
RECURSIVE SelectRows(_, _, _, _)
SelectRows(tbl, prefix, start, stop) ==
    IF tbl = <<>> THEN <<>>
    ELSE (IF Selected(Head(tbl), prefix, start, stop) THEN <<Head(tbl)>> ELSE <<>>)
         \o SelectRows(Tail(tbl), prefix, start, stop)

\* Result<Vec<Metric>>
Ok(v) == [ok |-> TRUE, metrics |-> v]
Err == [ok |-> FALSE, metrics |-> <<>>]

\* what read_metrics returns on the table tbl: the selected rows decoded
\* in row order, or an error when like() rejects the pattern on the first
\* row it is evaluated for, when a selected row's time does not parse or
\* when its value column cannot be read
ReadMetrics(tbl, prefix, start, stop) ==
    IF tbl # <<>> /\ PatternTooComplex(prefix \o <<37>>) THEN Err
    ELSE LET sel == SelectRows(tbl, prefix, start, stop)
         IN  IF \E k \in 1..Len(sel) :
                   parse_from_rfc3339(sel[k].time) = None \/ ValueOf(sel[k]) = None
             THEN Err
             ELSE Ok([k \in 1..Len(sel) |->
                        Metric(sel[k].name, Unwrap(parse_from_rfc3339(sel[k].time)),
                               Unwrap(ValueOf(sel[k])))])

\* the first n elements of s
Take(s, n) == SubSeq(s, 1, IF n < Len(s) THEN n ELSE Len(s))

\* read_metrics(prefix, start, stop, limit), the four-argument method that
\* load_metrics calls: what read_metrics returns, capped at `limit` rows
ReadMetricsLimit(tbl, prefix, start, stop, limit) ==
    LET read == ReadMetrics(tbl, prefix, start, stop)
    IN  IF read.ok THEN Ok(Take(read.metrics, limit)) ELSE Err

\* the distinct names among the stored metrics ws that begin with prefix
ListedNames(ws, prefix) ==
    {ws[k].name : k \in {j \in 1..Len(ws) : StartsWith(ws[j].name, prefix)}}

\* the latest of the instants stored under name
LastOf(ws, name) ==
    LET ts == {ws[k].when : k \in {j \in 1..Len(ws) : ws[j].name = name}}
    IN  CHOOSE t \in ts : \A u \in ts : ~TimeLess(t, u)

\* list_metrics(prefix) on the stored metrics ws: for every distinct name
\* matching the prefix, the name paired with the maximum timestamp observed
\* for it; the names in the given order
ListMetrics(ws, prefix, order) ==
    Ok([g \in 1..Len(order) |-> <<order[g], LastOf(ws, order[g])>>])

\* ---------------------------------------------------------- service layer
\* prost_types::Timestamp
Timestamp(seconds, nanos) == [seconds |-> seconds, nanos |-> nanos]

\* DateTime::from(UNIX_EPOCH + from_secs(seconds as u64)
\* + from_nanos(nanos as u64)) for seconds >= 0. The cast of a negative
\* nanos adds 2^64 to it, and 2^64 ns are 213503 days, 84873 s and
\* 709551616 ns.
FromProto(w) ==
    LET neg  == w.nanos < 0
        ns   == IF neg THEN 709551616 + w.nanos ELSE w.nanos
        secs == (w.seconds % 86400) + (IF neg THEN 84873 ELSE 0)
                    + (ns \div 1000000000)
    IN  DateTime((w.seconds \div 86400) + (IF neg THEN 213503 ELSE 0)
                     + (secs \div 86400),
                 secs % 86400, ns % 1000000000)

\* the first day DateTime cannot hold: the day after 262142-12-31
DayAfterMax == 95026237

\* the conversion panics: a negative seconds cast to u64 is at least 2^63,
\* more than SystemTime (i64 seconds) can hold ("overflow when adding
\* duration to instant"), and DateTime::from panics for an instant after
\* the last one chrono represents
ConversionPanics(w) == w.seconds < 0 \/ FromProto(w).days >= DayAfterMax

\* Utc::now() at the clock's tick c
Now(c) == DateTime(18288, c, 250000000)

\* a proto Metric: identifier, optional when, optional value (oneof)
Entry(id, when, value) == [identifier |-> id, when |-> when, value |-> value]

\* the entries a request may carry: name "a.b"; no timestamp, the instant
\* 2018-01-26T18:30:09.453829Z, one second before 1970 or one nanosecond
\* before 1970 given as {seconds: 0, nanos: -1}; no value, 23.0 or "x"
Entries ==
    {Entry(<<97, 46, 98>>, w, v) :
        w \in {None, Some(Timestamp(1516991409, 453829000)),
               Some(Timestamp(-1, 0)), Some(Timestamp(0, -1))},
        v \in {None} \cup {Some(x) : x \in MetricValues}}

Batches == UNION {[1..n -> Entries] : n \in 0..MaxBatch}

\* ------------------------------------------------------------ load_metrics
\* the cap load_metrics uses when the request leaves max_time_values at 0
DefaultLimit == 1000

\* mutant: the cap passed to storage is one too large
Limit_OffByOne(max_time_values) ==
    IF max_time_values # 0 THEN max_time_values + 1 ELSE DefaultLimit

\* let limit = if req.max_time_values != 0 { .. } else { 1000 }
Limit(max_time_values) ==
    IF max_time_values # 0 THEN max_time_values ELSE DefaultLimit

\* prost_types::Timestamp{seconds: when.timestamp(), nanos: subsec_nanos}
ToProto(when) == Timestamp(when.days * 86400 + when.sod, when.nano)

\* the TimeValue load_metrics pushes for a metric
TimeValue(metric) == [value |-> Some(metric.value), when |-> Some(ToProto(metric.when))]

\* LoadMetricsRequest
LoadRequest(prefix, time_range, max_time_values) ==
    [prefix |-> prefix, time_range |-> time_range,
     max_time_values |-> max_time_values]

\* TimeRange
TimeRange(start, stop) == [start |-> start, stop |-> stop]

\* the start or stop a request gives: field is "start" or "stop"
RangeBound(req, field) ==
    IF req.time_range = None THEN None ELSE Unwrap(req.time_range)[field]

\* the conversions of the request's bounds panic
LoadPanics(req) ==
    \E field \in {"start", "stop"} :
        /\ RangeBound(req, field) # None
        /\ ConversionPanics(Unwrap(RangeBound(req, field)))

\* the Option<DateTime<Utc>> load_metrics passes to read_metrics
BoundOf(req, field) ==
    IF RangeBound(req, field) = None THEN None
    ELSE Some(FromProto(Unwrap(RangeBound(req, field))))

\* the keys of `mapping`: the names among the metrics read
NamesOf(ms) == {ms[k].name : k \in 1..Len(ms)}

\* mutant: the entry of the map is inserted anew for every metric read,
\* so only the point pushed last is kept
RECURSIVE PointsOf_Reinserted(_, _)
PointsOf_Reinserted(ms, name) ==
    IF ms = <<>> THEN <<>>
    ELSE IF Head(ms).name = name /\ PointsOf_Reinserted(Tail(ms), name) = <<>>
    THEN <<TimeValue(Head(ms))>>
    ELSE PointsOf_Reinserted(Tail(ms), name)

\* mapping[name]: the TimeValues pushed for name, in the order read
RECURSIVE PointsOf(_, _)
PointsOf(ms, name) ==
    IF ms = <<>> THEN <<>>
    ELSE (IF Head(ms).name = name THEN <<TimeValue(Head(ms))>> ELSE <<>>)
         \o PointsOf(Tail(ms), name)

\* CompressedMetric
CompressedMetric(identifier, time_values) ==
    [identifier |-> identifier, time_values |-> time_values]

\* the orders in which `for (key, value) in mapping` may visit the keys
Orders(S) ==
    {f \in [1..Cardinality(S) -> S] :
        \A a, b \in 1..Cardinality(S) : f[a] = f[b] => a = b}

\* the LoadMetricsResponse built from the metrics read, the map's keys
\* visited in the given order
Grouped(ms, order) ==
    [g \in 1..Len(order) |-> CompressedMetric(order[g], PointsOf(ms, order[g]))]

\* the load requests made: any prefix; no range, or a start and a stop
\* each absent, 2018-01-26T18:30:09.453829Z / 2020-01-26T18:30:09.453829Z,
\* the start also one second before 1970; any cap up to the table size
LoadRequests ==
    {LoadRequest(p, r, m) :
        p \in Prefixes,
        r \in {None} \cup
              {Some(TimeRange(a, b)) :
                  a \in {None, Some(Timestamp(1516991409, 453829000)),
                         Some(Timestamp(-1, 0))},
                  b \in {None, Some(Timestamp(1580063409, 453829000))}},
        m \in 0..MaxRows}

\* ------------------------------------------------------------ list_metrics
\* ListMetric
ListMetric(identifier, last_timestamp) ==
    [identifier |-> identifier, last_timestamp |-> last_timestamp]

\* mutant: the entries carry whole seconds only
Listed_SecondsOnly(metrics) ==
    [g \in 1..Len(metrics) |->
        ListMetric(metrics[g][1],
                   Some(Timestamp(ToProto(metrics[g][2]).seconds, 0)))]

\* the ListMetricsResponse built from the pairs storage returned
Listed(metrics) ==
    [g \in 1..Len(metrics) |->
        ListMetric(metrics[g][1], Some(ToProto(metrics[g][2])))]

\* ------------------------------------------------------------------- state
MigProcs == {"A", "B"}
\* the callers of migrate that run in the sequential specifications
SeqProcs == {"A"}
Handlers == {"H1", "H2"}
\* the request handlers that run in the sequential specifications
SeqHandlers == {"H1"}

VARIABLES
    available,   \* names yielded by E::iter() in the build that called last
    tracking,    \* the SchemaMigrations table exists
    ledger,      \* the names stored in SchemaMigrations (name is the key)
    schema,      \* the migrations whose schema objects exist
    applyCalls,  \* history: how often apply() ran each migration's SQL
    mig,         \* per caller: the locals of its migrate call
    last,        \* history: outcome and file list of the last ended call
    rows,        \* the Metrics table, in rowid order
    written,     \* history: the metrics write_metric stored, in order
    rd,          \* the read_metrics call made last, if no write followed it
    ld,          \* the load_metrics call made last
    ls,          \* the list_metrics call made last
    clock,       \* the wall clock
    rec,         \* per handler: the locals of its record_metrics call
    poisoned     \* the connection's Mutex is poisoned

migVars == <<available, tracking, ledger, schema, applyCalls, mig, last>>
storeVars == <<rows, written, rd, ld, ls>>
srvVars == <<clock, rec>>
lockVars == <<poisoned>>
vars == <<migVars, storeVars, srvVars, lockVars>>

IdleCall ==
    [pc |-> "idle", files |-> <<>>, applied_migrations |-> <<>>, i |-> 0,
     result |-> "none", log |-> <<>>, ledger0 |-> {}, schema0 |-> {},
     rows0 |-> <<>>,
     prev |-> [result |-> "none", files |-> <<>>]]

IdleHandler ==
    [pc |-> "idle", req |-> <<>>, k |-> 0, current_time |-> Now(0),
     result |-> "none", rows0 |-> <<>>]

NoRead == [called |-> FALSE, prefix |-> <<>>, start |-> None, stop |-> None,
           result |-> Err]

\* a response of the service: status "Ok", "Internal" (the Status a
\* DatabaseError maps to) or "Panic", and the list it carries
Response(status, metrics) == [status |-> status, metrics |-> metrics]

NoLoad ==
    [called |-> FALSE, req |-> LoadRequest(<<>>, None, 0), limit |-> 0,
     read |-> Err, tbl |-> <<>>, result |-> Response("none", <<>>)]

NoList ==
    [called |-> FALSE, prefix |-> <<>>, tbl |-> <<>>,
     result |-> Response("none", <<>>)]

\* a fresh connection, no build has run migrate yet
Init ==
    /\ available = {}
    /\ tracking = FALSE
    /\ ledger = {}
    /\ schema = {}
    /\ applyCalls = [n \in MigrationNames |-> 0]
    /\ mig = [p \in MigProcs |-> IdleCall]
    /\ last = [result |-> "none", files |-> <<>>]
    /\ rows = <<>>
    /\ written = <<>>
    /\ rd = NoRead
    /\ ld = NoLoad
    /\ ls = NoList
    /\ clock = 0
    /\ rec = [h \in Handlers |-> IdleHandler]
    /\ poisoned = FALSE

\* ------------------------------------------------------- migrate, stepwise
\* the reverse of a sequence
RECURSIVE Reverse(_)
Reverse(s) == IF s = <<>> THEN <<>> ELSE Append(Reverse(Tail(s)), Head(s))

\* mutant: the files are taken in another order than the sorted one
SortedFiles_Unsorted(S) == Reverse(SortStrings(S))

\* E::iter().collect() followed by files.sort()
SortedFiles(S) == SortStrings(S)

\* mutant: the recorded names are not read back
AppliedSorted_Empty(l) == <<>>

\* applier.applied() followed by applied_migrations.sort()
AppliedSorted(l) == SortStrings(l)

\* mutant: the comparison with the recorded name is dropped
Mismatch_Never(am, fs, i) == FALSE

\* files[i] is recorded at position i under another name (0-based i)
Mismatch(am, fs, i) == am[i + 1] # fs[i + 1]

\* mutant: the last recorded migration is taken for a pending one
WithinApplied_OffByOne(am, i) == i + 1 < Len(am)

\* the loop takes the "already applied" branch for index i
WithinApplied(am, i) == i < Len(am)

\* mutant: a poisoned lock is recovered and the statement runs
LockFails_Recovered(poison) == FALSE

\* self.conn.lock()? returns the PoisonError: the statement is not run
LockFails(poison) == poison

\* a statement on the Metrics table fails: the lock is poisoned, or the
\* table does not exist ("no such table: Metrics")
StatementFails(poison, sch) == LockFails(poison) \/ ~TableExists(sch)

\* execute_batch(sql) succeeds: an unconditional CREATE fails when the
\* object exists already
SqlSucceeds(n, sch) == Content(n).sql = "create_if_not_exists" \/ n \notin sch

\* mutant: SchemaMigrations has no primary key, every INSERT succeeds
InsertSucceeds_NoKey(n, l) == TRUE

\* INSERT INTO SchemaMigrations succeeds unless the primary key exists
InsertSucceeds(n, l) == n \notin l

\* migrate returns res
Return(p, res) ==
    /\ mig' = [mig EXCEPT ![p].pc = "idle", ![p].result = res]
    /\ last' = [result |-> res, files |-> mig[p].files]

\* migrate::<E, _> is called by a build whose E embeds the files S:
\* files = E::iter().collect(); files.sort()
MigrateBegin(p, S) ==
    /\ mig[p].pc = "idle"
    /\ available' = S
    /\ mig' = [mig EXCEPT ![p] =
                 [pc |-> "setup", files |-> SortedFiles(S),
                  applied_migrations |-> <<>>, i |-> 0, result |-> "running",
                  log |-> <<>>, ledger0 |-> ledger, schema0 |-> schema,
                  rows0 |-> rows, prev |-> last]]
    /\ UNCHANGED <<tracking, ledger, schema, applyCalls, last>>
    /\ UNCHANGED <<storeVars, srvVars, lockVars>>

\* applier.setup(): CREATE TABLE IF NOT EXISTS SchemaMigrations
setup(p) ==
    /\ mig[p].pc = "setup"
    /\ IF LockFails(poisoned)
       THEN Return(p, "StorageError") /\ UNCHANGED tracking
       ELSE /\ tracking' = TRUE
            /\ mig' = [mig EXCEPT ![p].pc = "applied"]
            /\ UNCHANGED last
    /\ UNCHANGED <<available, ledger, schema, applyCalls>>
    /\ UNCHANGED <<storeVars, srvVars, lockVars>>

\* applier.applied(), sorted; let mut i = 0
applied(p) ==
    /\ mig[p].pc = "applied"
    /\ IF ~LockFails(poisoned) /\ tracking
       THEN /\ mig' = [mig EXCEPT ![p].pc = "loop", ![p].i = 0,
                         ![p].applied_migrations = AppliedSorted(ledger)]
            /\ UNCHANGED last
       ELSE Return(p, "StorageError")
    /\ UNCHANGED <<available, tracking, ledger, schema, applyCalls>>
    /\ UNCHANGED <<storeVars, srvVars, lockVars>>

\* mutant: a file that is not UTF-8 is skipped instead of failing the call
loop_SkipUndecodable(p) ==
    LET c == mig[p] IN
    /\ c.pc = "loop"
    /\ IF ~(c.i < Len(c.files)) THEN Return(p, "Ok")
       ELSE IF WithinApplied(c.applied_migrations, c.i)
       THEN IF Mismatch(c.applied_migrations, c.files, c.i)
            THEN Return(p, "ConsistencyError")
            ELSE mig' = [mig EXCEPT ![p].i = c.i + 1] /\ UNCHANGED last
       ELSE IF ~Content(c.files[c.i + 1]).found
            THEN Return(p, "MissingFileError")
       ELSE IF ~Content(c.files[c.i + 1]).utf8
            THEN mig' = [mig EXCEPT ![p].i = c.i + 1] /\ UNCHANGED last
            ELSE mig' = [mig EXCEPT ![p].pc = "apply"] /\ UNCHANGED last
    /\ UNCHANGED <<available, tracking, ledger, schema, applyCalls>>
    /\ UNCHANGED <<storeVars, srvVars, lockVars>>

\* one pass of `while i < files.len()` up to the next applier call
loop(p) ==
    LET c == mig[p] IN
    /\ c.pc = "loop"
    /\ IF ~(c.i < Len(c.files)) THEN Return(p, "Ok")
       ELSE IF WithinApplied(c.applied_migrations, c.i)
       THEN IF Mismatch(c.applied_migrations, c.files, c.i)
            THEN Return(p, "ConsistencyError")
            ELSE mig' = [mig EXCEPT ![p].i = c.i + 1] /\ UNCHANGED last
       ELSE IF ~Content(c.files[c.i + 1]).found
            THEN Return(p, "MissingFileError")
       ELSE IF ~Content(c.files[c.i + 1]).utf8
            THEN Return(p, "EncodingError")
            ELSE mig' = [mig EXCEPT ![p].pc = "apply"] /\ UNCHANGED last
    /\ UNCHANGED <<available, tracking, ledger, schema, applyCalls>>
    /\ UNCHANGED <<storeVars, srvVars, lockVars>>

\* mutant: the migration is recorded in the statement that applies it
apply_Recording(p) ==
    LET c == mig[p]
        n == c.files[c.i + 1]
        lg == Append(c.log, <<"apply", n>>) IN
    /\ c.pc = "apply"
    /\ applyCalls[n] < MaxApplyCalls
    /\ applyCalls' = [applyCalls EXCEPT ![n] = @ + 1]
    /\ schema' = schema \cup {n}
    /\ ledger' = ledger \cup {n}
    /\ mig' = [mig EXCEPT ![p].pc = "mark", ![p].log = lg]
    /\ UNCHANGED <<available, tracking, last>>
    /\ UNCHANGED <<storeVars, srvVars, lockVars>>

\* applier.apply(sql)?
apply(p) ==
    LET c == mig[p]
        n == c.files[c.i + 1]
        lg == Append(c.log, <<"apply", n>>) IN
    /\ c.pc = "apply"
    /\ applyCalls[n] < MaxApplyCalls
    /\ applyCalls' = IF LockFails(poisoned) THEN applyCalls
                     ELSE [applyCalls EXCEPT ![n] = @ + 1]
    /\ IF ~LockFails(poisoned) /\ SqlSucceeds(n, schema)
       THEN /\ schema' = schema \cup {n}
            /\ mig' = [mig EXCEPT ![p].pc = "mark", ![p].log = lg]
            /\ UNCHANGED last
       ELSE /\ schema' = schema
            /\ mig' = [mig EXCEPT ![p].pc = "idle", ![p].log = lg,
                                  ![p].result = "StorageError"]
            /\ last' = [result |-> "StorageError", files |-> c.files]
    /\ UNCHANGED <<available, tracking, ledger>>
    /\ UNCHANGED <<storeVars, srvVars, lockVars>>

\* applier.mark_applied(&files[i])?; i += 1
mark_applied(p) ==
    LET c == mig[p]
        n == c.files[c.i + 1]
        lg == Append(c.log, <<"mark_applied", n>>) IN
    /\ c.pc = "mark"
    /\ IF ~LockFails(poisoned) /\ InsertSucceeds(n, ledger)
       THEN /\ ledger' = ledger \cup {n}
            /\ mig' = [mig EXCEPT ![p].pc = "loop", ![p].log = lg,
                                  ![p].i = c.i + 1]
            /\ UNCHANGED last
       ELSE /\ ledger' = ledger
            /\ mig' = [mig EXCEPT ![p].pc = "idle", ![p].log = lg,
                                  ![p].result = "StorageError"]
            /\ last' = [result |-> "StorageError", files |-> c.files]
    /\ UNCHANGED <<available, tracking, schema, applyCalls>>
    /\ UNCHANGED <<storeVars, srvVars, lockVars>>

\* the process running migrate is stopped between two statements
Stop(p) ==
    /\ mig[p].pc \notin {"idle"}
    /\ Return(p, "Stopped")
    /\ UNCHANGED <<available, tracking, ledger, schema, applyCalls>>
    /\ UNCHANGED <<storeVars, srvVars, lockVars>>

\* the steps of a migrate call after its first
MigrateStep(p) ==
    \/ setup(p)
    \/ applied(p)
    \/ loop(p)
    \/ apply(p)
    \/ mark_applied(p)
    \/ Stop(p)

\* ------------------------------------------------------------ Database ops
\* write_metric(metric): one INSERT into Metrics
write_metric(metric) ==
    /\ Len(rows) < MaxRows
    /\ IF StatementFails(poisoned, schema)
       THEN UNCHANGED storeVars
       ELSE /\ rows' = Insert(rows, metric)
            /\ written' = Append(written, metric)
            /\ rd' = NoRead
            /\ ld' = NoLoad
            /\ ls' = NoList
    /\ UNCHANGED <<migVars, srvVars, lockVars>>

\* read_metrics(prefix, start, stop)
read_metrics(prefix, start, stop) ==
    /\ rd' = [called |-> TRUE, prefix |-> prefix, start |-> start, stop |-> stop,
              result |-> IF StatementFails(poisoned, schema) THEN Err
                         ELSE ReadMetrics(rows, prefix, start, stop)]
    /\ UNCHANGED <<rows, written, ld, ls, migVars, srvVars, lockVars>>

\* load_metrics(request): the bounds and the cap are resolved, read_metrics
\* is called once, and the metrics read are grouped by name; the groups
\* leave the HashMap in an order the code does not fix. The call hands the
\* cap to read_metrics as its fourth argument; the read_metrics of
\* dal/sqlite.rs takes three, so the method called is the capped read
load_metrics(req) ==
    LET limit == Limit(req.max_time_values)
        read == IF StatementFails(poisoned, schema) THEN Err
                ELSE ReadMetricsLimit(rows, req.prefix, BoundOf(req, "start"),
                                      BoundOf(req, "stop"), limit)
        call(lim, rd0, res) ==
            [called |-> TRUE, req |-> req, limit |-> lim, read |-> rd0,
             tbl |-> rows, result |-> res]
    IN
    /\ IF LoadPanics(req)
       THEN ld' = call(0, Err, Response("Panic", <<>>))
       ELSE IF ~read.ok
       THEN ld' = call(limit, read, Response("Internal", <<>>))
       ELSE \E order \in Orders(NamesOf(read.metrics)) :
               ld' = call(limit, read, Response("Ok", Grouped(read.metrics, order)))
    /\ UNCHANGED <<rows, written, rd, ls, migVars, srvVars, lockVars>>

\* list_metrics(request): one call of db.list_metrics, each pair turned
\* into a ListMetric; storage returns the names in an order it chooses.
\* `written` holds the metric of every row of `rows`, in row order
list_metrics(prefix) ==
    LET call(res) == [called |-> TRUE, prefix |-> prefix, tbl |-> rows,
                      result |-> res]
    IN
    /\ \E order \in Orders(ListedNames(written, prefix)) :
          LET metrics == IF StatementFails(poisoned, schema) THEN Err
                         ELSE ListMetrics(written, prefix, order)
          IN  IF ~metrics.ok
              THEN ls' = call(Response("Internal", <<>>))
              ELSE ls' = call(Response("Ok", Listed(metrics.metrics)))
    /\ UNCHANGED <<rows, written, rd, ld, migVars, srvVars, lockVars>>

\* ----------------------------------------------------------- record_metrics
\* the Metric record_metrics builds from a proto entry that has a value
MetricOf(e, current_time) ==
    Metric(e.identifier,
           IF e.when # None THEN FromProto(Unwrap(e.when)) ELSE current_time,
           Unwrap(e.value))

\* the number of entries the running record_metrics calls have yet to visit
RECURSIVE PendingOf(_)
PendingOf(H) ==
    IF H = {} THEN 0
    ELSE LET h == CHOOSE x \in H : TRUE
         IN  (IF rec[h].pc = "loop" THEN Len(rec[h].req) - rec[h].k ELSE 0)
             + PendingOf(H \ {h})

Pending == PendingOf(Handlers)

\* record_metrics is called: current_time = Utc::now()
RecordBegin(h, req) ==
    /\ rec[h].pc = "idle"
    /\ Len(rows) + Pending + Len(req) <= MaxRows
    /\ rec' = [rec EXCEPT ![h] =
                 [pc |-> "loop", req |-> req, k |-> 0, current_time |-> Now(clock),
                  result |-> "running", rows0 |-> rows]]
    /\ UNCHANGED <<clock, migVars, storeVars, lockVars>>

\* mutant: a failed write removes the rows the call has stored
RecordStep_Rollback(h) ==
    LET c == rec[h]
        e == c.req[c.k + 1]
        m == MetricOf(e, c.current_time) IN
    /\ c.pc = "loop"
    /\ IF c.k = Len(c.req)
       THEN /\ rec' = [rec EXCEPT ![h].pc = "idle", ![h].result = "Ok"]
            /\ UNCHANGED <<rows, written, rd, ld, ls>>
       ELSE IF e.value = None
       THEN /\ rec' = [rec EXCEPT ![h].pc = "idle", ![h].result = "ValidationError"]
            /\ UNCHANGED <<rows, written, rd, ld, ls>>
       ELSE IF e.when # None /\ ConversionPanics(Unwrap(e.when))
       THEN /\ rec' = [rec EXCEPT ![h].pc = "idle", ![h].result = "Panic"]
            /\ UNCHANGED <<rows, written, rd, ld, ls>>
       ELSE IF StatementFails(poisoned, schema)
       THEN /\ rec' = [rec EXCEPT ![h].pc = "idle", ![h].result = "Internal"]
            /\ rows' = c.rows0
            /\ UNCHANGED <<written, rd, ld, ls>>
       ELSE /\ rows' = Insert(rows, m)
            /\ written' = Append(written, m)
            /\ rec' = [rec EXCEPT ![h].k = c.k + 1]
            /\ rd' = NoRead /\ ld' = NoLoad /\ ls' = NoList
    /\ UNCHANGED <<clock, migVars, lockVars>>

\* mutant: the entries are visited from the last to the first
RecordStep_Reversed(h) ==
    LET c == rec[h]
        e == c.req[Len(c.req) - c.k]
        m == MetricOf(e, c.current_time) IN
    /\ c.pc = "loop"
    /\ IF c.k = Len(c.req)
       THEN /\ rec' = [rec EXCEPT ![h].pc = "idle", ![h].result = "Ok"]
            /\ UNCHANGED <<rows, written, rd, ld, ls>>
       ELSE IF e.value = None
       THEN /\ rec' = [rec EXCEPT ![h].pc = "idle", ![h].result = "ValidationError"]
            /\ UNCHANGED <<rows, written, rd, ld, ls>>
       ELSE IF e.when # None /\ ConversionPanics(Unwrap(e.when))
       THEN /\ rec' = [rec EXCEPT ![h].pc = "idle", ![h].result = "Panic"]
            /\ UNCHANGED <<rows, written, rd, ld, ls>>
       ELSE IF StatementFails(poisoned, schema)
       THEN /\ rec' = [rec EXCEPT ![h].pc = "idle", ![h].result = "Internal"]
            /\ UNCHANGED <<rows, written, rd, ld, ls>>
       ELSE /\ rows' = Insert(rows, m)
            /\ written' = Append(written, m)
            /\ rec' = [rec EXCEPT ![h].k = c.k + 1]
            /\ rd' = NoRead /\ ld' = NoLoad /\ ls' = NoList
    /\ UNCHANGED <<clock, migVars, lockVars>>

\* one pass of `for metric in &request.get_ref().metrics`, or the return
\* after the last entry
RecordStep(h) ==
    LET c == rec[h]
        e == c.req[c.k + 1]
        m == MetricOf(e, c.current_time) IN
    /\ c.pc = "loop"
    /\ IF c.k = Len(c.req)
       THEN /\ rec' = [rec EXCEPT ![h].pc = "idle", ![h].result = "Ok"]
            /\ UNCHANGED <<rows, written, rd, ld, ls>>
       ELSE IF e.value = None
       THEN /\ rec' = [rec EXCEPT ![h].pc = "idle", ![h].result = "ValidationError"]
            /\ UNCHANGED <<rows, written, rd, ld, ls>>
       ELSE IF e.when # None /\ ConversionPanics(Unwrap(e.when))
       THEN /\ rec' = [rec EXCEPT ![h].pc = "idle", ![h].result = "Panic"]
            /\ UNCHANGED <<rows, written, rd, ld, ls>>
       ELSE IF StatementFails(poisoned, schema)
       THEN /\ rec' = [rec EXCEPT ![h].pc = "idle", ![h].result = "Internal"]
            /\ UNCHANGED <<rows, written, rd, ld, ls>>
       ELSE /\ rows' = Insert(rows, m)
            /\ written' = Append(written, m)
            /\ rec' = [rec EXCEPT ![h].k = c.k + 1]
            /\ rd' = NoRead /\ ld' = NoLoad /\ ls' = NoList
    /\ UNCHANGED <<clock, migVars, lockVars>>

\* a thread panics while it holds the guard of conn.lock(): the Mutex is
\* poisoned from then on
Poison ==
    /\ ~poisoned
    /\ poisoned' = TRUE
    /\ UNCHANGED <<migVars, storeVars, srvVars>>

\* time passes
Tick ==
    /\ clock < MaxClock
    /\ clock' = clock + 1
    /\ UNCHANGED <<rec, migVars, storeVars, lockVars>>

\* ------------------------------------------------------------ specifications
\* the sets of files a build may embed: any with at most one file that
\* cannot be fetched or decoded
Builds == {S \in SUBSET MigrationNames : ~({<<50>>, <<51>>} \subseteq S)}

\* the row the migrator's test inserts between two runs
BetweenRuns == {Metric(<<97, 46, 98>>, T2018, Double(23))}

\* The migration engine with one caller at a time; any build may call
\* migrate, so the embedded set varies from call to call, and rows are
\* written between the calls.
Next ==
    \/ \E p \in SeqProcs, S \in Builds : MigrateBegin(p, S)
    \/ \E p \in SeqProcs : MigrateStep(p)
    \/ \E m \in BetweenRuns : (\A p \in MigProcs : mig[p].pc = "idle") /\ write_metric(m)

Spec == Init /\ [][Next]_vars

\* One build: every call embeds the same files.
InitFixed ==
    \E S \in Builds :
        /\ available = S
        /\ tracking = FALSE
        /\ ledger = {}
        /\ schema = {}
        /\ applyCalls = [n \in MigrationNames |-> 0]
        /\ mig = [p \in MigProcs |-> IdleCall]
        /\ last = [result |-> "none", files |-> <<>>]
        /\ rows = <<>>
        /\ written = <<>>
        /\ rd = NoRead
        /\ ld = NoLoad
        /\ ls = NoList
        /\ clock = 0
        /\ rec = [h \in Handlers |-> IdleHandler]
        /\ poisoned = FALSE

\* The connection after Database::setup() has returned Ok on a fresh
\* store: the one migrate call of the build applied and recorded its files.
InitReady ==
    /\ available = Build
    /\ tracking = TRUE
    /\ ledger = Build
    /\ schema = Build
    /\ applyCalls = [n \in MigrationNames |-> IF n \in Build THEN 1 ELSE 0]
    /\ mig = [p \in MigProcs |->
                IF p \in SeqProcs
                THEN [IdleCall EXCEPT
                        !.files = SortedFiles(Build),
                        !.i = Len(SortedFiles(Build)),
                        !.result = "Ok",
                        !.log = << <<"apply", <<49>> >>,
                                   <<"mark_applied", <<49>> >>,
                                   <<"apply", <<49, 48>> >>,
                                   <<"mark_applied", <<49, 48>> >> >>]
                ELSE IdleCall]
    /\ last = [result |-> "Ok", files |-> SortedFiles(Build)]
    /\ rows = <<>>
    /\ written = <<>>
    /\ rd = NoRead
    /\ ld = NoLoad
    /\ ls = NoList
    /\ clock = 0
    /\ rec = [h \in Handlers |-> IdleHandler]
    /\ poisoned = FALSE

NextFixed ==
    \/ \E p \in SeqProcs : MigrateBegin(p, available)
    \/ \E p \in SeqProcs : MigrateStep(p)

SpecFixed == InitFixed /\ [][NextFixed]_vars

\* The storage backend after setup: writes of the Metrics table, and one
\* read at a time of what was written.
NextStore ==
    \/ \E m \in Metrics : write_metric(m)
    \/ \E prefix \in StorePrefixes, start \in Bounds, stop \in Bounds :
            ~rd.called /\ read_metrics(prefix, start, stop)

SpecStore == InitReady /\ [][NextStore]_vars

\* The service layer: RecordMetrics requests handled one at a time.
NextServer ==
    \/ \E h \in SeqHandlers, req \in Batches : RecordBegin(h, req)
    \/ \E h \in SeqHandlers : RecordStep(h)
    \/ Tick

SpecServer == InitReady /\ [][NextServer]_vars

\* The service's queries over the storage backend: writes of the Metrics
\* table, and one LoadMetrics call at a time on what was written.
NextLoad ==
    \/ \E m \in Metrics : write_metric(m)
    \/ \E req \in LoadRequests : ~ld.called /\ load_metrics(req)

SpecLoad == InitReady /\ [][NextLoad]_vars

\* Writes of the Metrics table, and one ListMetrics call at a time on
\* what was written.
NextList ==
    \/ \E m \in ListedMetrics : write_metric(m)
    \/ \E prefix \in Prefixes : ~ls.called /\ list_metrics(prefix)

SpecList == InitReady /\ [][NextList]_vars

\* The running service: the migrate call of the build's embedded set made
\* once by Database::setup and, after it has returned Ok, RecordMetrics,
\* LoadMetrics, ListMetrics and read_metrics calls interleaved at statement
\* boundaries while time passes.
\* the requests of the running service: batches of "a.b" = 23.0 without
\* timestamp, the last entry also "x" at 2018-01-26T18:30:09.453829Z or
\* without value; queries for the prefix "a." without bounds or cap
ServiceBatches ==
    LET first == Entry(<<97, 46, 98>>, None, Some(Double(23)))
        lasts == {first,
                  Entry(<<97, 46, 98>>, Some(Timestamp(1516991409, 453829000)),
                        Some(String(<<120>>))),
                  Entry(<<97, 46, 98>>, None, None)}
    IN  {[k \in 1..n |-> IF k < n THEN first ELSE l] :
            n \in 1..MaxBatch, l \in lasts}
ServicePrefixes == {<<97, 46>>}

\* main: db.setup()? has returned Ok and the server accepts requests
Serving == \E p \in SeqProcs : mig[p].pc = "idle" /\ mig[p].result = "Ok"

NextService ==
    \/ \E p \in SeqProcs : mig[p].result = "none" /\ MigrateBegin(p, Build)
    \/ \E p \in SeqProcs : MigrateStep(p)
    \/ \E h \in SeqHandlers, req \in ServiceBatches :
            Serving /\ RecordBegin(h, req)
    \/ \E h \in SeqHandlers : RecordStep(h)
    \/ \E prefix \in ServicePrefixes :
            Serving /\ ~rd.called /\ read_metrics(prefix, None, None)
    \/ \E prefix \in ServicePrefixes :
            Serving /\ ~ld.called /\ load_metrics(LoadRequest(prefix, None, 0))
    \/ \E prefix \in ServicePrefixes :
            Serving /\ ~ls.called /\ list_metrics(prefix)
    \/ Tick

SpecService == Init /\ [][NextService]_vars

\* The running service when a thread may panic with the lock held.
NextPoison ==
    \/ NextService
    \/ Poison

SpecPoison == Init /\ [][NextPoison]_vars

\* The service while Database::setup is called a second time on the store:
\* caller A is main's setup, after whose Ok the requests are served, and
\* caller B runs the same build's migrate call at any time, so that its
\* statements interleave with A's and with the RecordMetrics, LoadMetrics,
\* ListMetrics and read_metrics calls on the rows stored. The requests
\* are the service's batches of full length whose entries all have a value.
InterleavedBatches ==
    {b \in ServiceBatches : Len(b) = MaxBatch /\ b[Len(b)].value # None}

NextInterleaved ==
    \/ \E p \in MigProcs : mig[p].result = "none" /\ MigrateBegin(p, Build)
    \/ \E p \in MigProcs : MigrateStep(p)
    \/ \E h \in SeqHandlers, req \in InterleavedBatches :
            Serving /\ RecordBegin(h, req)
    \/ \E h \in SeqHandlers : RecordStep(h)
    \/ \E prefix \in ServicePrefixes :
            Serving /\ ~rd.called /\ read_metrics(prefix, None, None)
    \/ \E prefix \in ServicePrefixes :
            Serving /\ ~ld.called /\ load_metrics(LoadRequest(prefix, None, 0))
    \/ \E prefix \in ServicePrefixes :
            Serving /\ ~ls.called /\ list_metrics(prefix)

SpecInterleaved == Init /\ [][NextInterleaved]_vars

\* Two callers of migrate on one connection, both of the build's embedded
\* set, interleaved at statement boundaries.
NextMigrators ==
    \/ \E p \in MigProcs : MigrateBegin(p, Build)
    \/ \E p \in MigProcs : MigrateStep(p)

SpecMigrators == Init /\ [][NextMigrators]_vars

\* RecordMetrics calls of two handlers interleaved at statement boundaries;
\* a write fails once a thread has panicked with the lock held. The
\* batches are those of the running service and one whose timestamp is one
\* second before 1970.
RecorderBatches ==
    ServiceBatches \cup
        {<<Entry(<<97, 46, 98>>, Some(Timestamp(-1, 0)), Some(Double(23)))>>}

NextRecorders ==
    \/ \E h \in Handlers, req \in RecorderBatches : RecordBegin(h, req)
    \/ \E h \in Handlers : RecordStep(h)
    \/ Poison

SpecRecorders == InitReady /\ [][NextRecorders]_vars

\* ------------------------------------------------------------------ claims
\* the number of calls op(n) a migrate call has made
Calls(c, op, n) == Cardinality({k \in 1..Len(c.log) : c.log[k] = <<op, n>>})

\* the call has returned (it was not stopped)
Returned(c) == c.pc = "idle" /\ c.result \notin {"none", "Stopped"}

\* the call read a recorded name that differs from the file at its index
MismatchAt(c) ==
    \E j \in 1..Len(c.applied_migrations) :
        j <= Len(c.files) /\ c.applied_migrations[j] # c.files[j]

\* C1: a migrate call that directly follows a successful call with the same
\* files makes no apply and no mark_applied call, leaves the ledger, the
\* schema and the rows written before it as they were, and returns Ok.
C1_Idempotence ==
    \A p \in MigProcs :
        LET c == mig[p] IN
        (c.result # "none" /\ c.prev.result = "Ok" /\ c.prev.files = c.files)
            => /\ c.log = <<>>
               /\ ledger = c.ledger0
               /\ schema = c.schema0
               /\ IsPrefix(c.rows0, rows)
               /\ Returned(c) => c.result = "Ok"

\* a second run over two applied migrations has returned Ok, with a row
\* written between the runs
C1_Witness ==
    \E p \in MigProcs :
        LET c == mig[p] IN
        /\ Returned(c) /\ c.result = "Ok"
        /\ c.prev.result = "Ok" /\ c.prev.files = c.files
        /\ Len(c.files) = 2 /\ ledger = Range(c.files)
        /\ c.rows0 # <<>>

\* C2: when a recorded name differs from the file at the same index, the
\* call makes no apply and no mark_applied call, leaves ledger and schema
\* as they were, and returns a consistency error.
C2_ConsistencyEnforced ==
    \A p \in MigProcs :
        LET c == mig[p] IN
        MismatchAt(c)
            => /\ c.log = <<>>
               /\ ledger = c.ledger0
               /\ schema = c.schema0
               /\ Returned(c) => c.result = "ConsistencyError"

\* a call with more files than recorded names has failed on a mismatch
C2_Witness ==
    \E p \in MigProcs :
        LET c == mig[p] IN
        /\ Returned(c) /\ c.result = "ConsistencyError"
        /\ MismatchAt(c)
        /\ Len(c.files) > Len(c.applied_migrations)

\* C3: a call that follows a successful migrate(S) and whose files lack a
\* recorded migration of S returns an error.
C3_RemovedIsFatal ==
    \A p \in MigProcs :
        LET c == mig[p] IN
        (/\ Returned(c)
         /\ c.prev.result = "Ok"
         /\ \E n \in c.ledger0 \cap Range(c.prev.files) : n \notin Range(c.files))
            => c.result # "Ok"

\* C4: the sorted ledger is an ordered prefix of the sorted available names.
C4_LedgerPrefix == IsPrefix(SortStrings(ledger), SortStrings(available))

\* a call has failed or was stopped after recording a migration, with
\* another file still pending
C4_Witness ==
    \E p \in MigProcs :
        LET c == mig[p] IN
        /\ c.pc = "idle" /\ c.result \in {"EncodingError", "Stopped"}
        /\ \E k \in 1..Len(c.log) : c.log[k][1] = "mark_applied"
        /\ Cardinality(ledger) < Cardinality(available)

\* C5: no step runs apply for a migration that is recorded in the ledger.
C5_NoReapply ==
    [][\A n \in MigrationNames : n \in ledger => applyCalls'[n] = applyCalls[n]]_vars

\* a later call has applied a new migration while another was recorded
C5_Witness ==
    \E p \in MigProcs :
        LET c == mig[p] IN
        /\ Returned(c) /\ c.result = "Ok"
        /\ c.ledger0 # {} /\ c.log # <<>>

\* C6: apply runs the SQL of each migration at most once, and exactly once
\* for every file of a call that has returned Ok.
C6_ExactlyOnce ==
    /\ \A n \in MigrationNames : applyCalls[n] <= 1
    /\ \A p \in MigProcs :
          LET c == mig[p] IN
          (Returned(c) /\ c.result = "Ok")
              => \A n \in Range(c.files) : applyCalls[n] = 1

\* C7: after migrate(S) has succeeded, migrate(S \cup T) with valid files T
\* that sort after S returns Ok, calls apply and mark_applied once for each
\* member of T and never for a member of S, and leaves the ledger S \cup T.
C7_AppendOnly ==
    \A p \in MigProcs :
        LET c == mig[p]
            S == Range(c.prev.files)
            T == Range(c.files) \ S IN
        (/\ Returned(c)
         /\ c.prev.result = "Ok"
         /\ IsPrefix(c.prev.files, c.files)
         /\ \A n \in T : Content(n).found /\ Content(n).utf8)
            => /\ c.result = "Ok"
               /\ \A n \in T : Calls(c, "apply", n) = 1 /\ Calls(c, "mark_applied", n) = 1
               /\ \A n \in S : Calls(c, "apply", n) = 0 /\ Calls(c, "mark_applied", n) = 0
               /\ ledger = S \cup T

\* the metrics of w a range query is to return: the name begins with
\* prefix and the instant lies strictly between the given bounds
RECURSIVE InRange(_, _, _, _)
InRange(w, prefix, start, stop) ==
    IF w = <<>> THEN <<>>
    ELSE (IF /\ StartsWith(Head(w).name, prefix)
             /\ start # None => TimeLess(Unwrap(start), Head(w).when)
             /\ stop # None => TimeLess(Head(w).when, Unwrap(stop))
          THEN <<Head(w)>> ELSE <<>>)
         \o InRange(Tail(w), prefix, start, stop)

\* C8: read_metrics returns exactly the written metrics whose name begins
\* with the prefix and whose instant lies strictly between start and stop.
C8_ExclusiveRange ==
    rd.called => rd.result = Ok(InRange(written, rd.prefix, rd.start, rd.stop))

\* C9: a read without time bounds, by a prefix of a written metric's name,
\* succeeds and returns that metric as written; it returns exactly the
\* metric when nothing else was written.
C9_RoundTrip ==
    (rd.called /\ rd.start = None /\ rd.stop = None)
        => \A k \in 1..Len(written) :
              StartsWith(written[k].name, rd.prefix)
                  => /\ rd.result.ok
                     /\ written[k] \in Range(rd.result.metrics)
                     /\ Len(written) = 1 => rd.result.metrics = written

\* the position (from 0) of the first entry of req that has no value
FirstNoValue(req) ==
    (CHOOSE j \in 1..Len(req) :
        req[j].value = None /\ \A l \in 1..(j - 1) : req[l].value # None) - 1

\* C10: a request whose first entry without a value is at position k fails
\* with a validation error, and exactly the entries before k are stored.
C10_ValidationPartialWrite ==
    \A h \in Handlers :
        LET c == rec[h] IN
        (/\ c.pc = "idle" /\ c.result # "none"
         /\ \E j \in 1..Len(c.req) : c.req[j].value = None)
            => /\ c.result = "ValidationError"
               /\ rows = c.rows0 \o [j \in 1..FirstNoValue(c.req) |->
                                        RowOf(MetricOf(c.req[j], c.current_time))]

\* the instant a Timestamp denotes: seconds and nanos after 1970-01-01
InstantOf(w) ==
    LET secs == (w.seconds % 86400) + (w.nanos \div 1000000000)
    IN  DateTime((w.seconds \div 86400) + (secs \div 86400), secs % 86400,
                 w.nanos % 1000000000)

\* C11: in one record_metrics call every stored entry that omits a timestamp
\* carries the instant read from the clock when the call began, however far
\* the clock has advanced since, and every stored entry that supplies a
\* timestamp carries its own.
C11_DefaultTimestampShared ==
    \A h \in Handlers :
        LET c == rec[h] IN
        c.result # "none"
            => \A j \in 1..c.k :
                  rows[Len(c.rows0) + j].time =
                      IF c.req[j].when = None
                      THEN to_rfc3339(c.current_time)
                      ELSE to_rfc3339(InstantOf(Unwrap(c.req[j].when)))

\* the number of points a LoadMetricsResponse carries over all its groups
RECURSIVE TotalPoints(_)
TotalPoints(groups) ==
    IF groups = <<>> THEN 0
    ELSE Len(Head(groups).time_values) + TotalPoints(Tail(groups))

LastWritten(name) ==
    LET ts == {written[k].when : k \in {j \in 1..Len(written) : written[j].name = name}}
    IN  CHOOSE t \in ts : \A u \in ts : ~TimeLess(t, u)

C13_WitnessOtherName ==
    /\ ls.called /\ ls.result.status = "Ok"
    /\ Len(written) = 2
    /\ written[1].name # written[2].name
    /\ Len(ls.result.metrics) = 1

\* the positions of the metrics named name among the metrics read
PositionsOf(ms, name) == {k \in 1..Len(ms) : ms[k].name = name}

\* the i-th smallest element of the set of positions idx
Nth(idx, i) == CHOOSE k \in idx : Cardinality({j \in idx : j <= k}) = i

\* C14: the LoadMetrics response has exactly one entry per distinct name
\* among the metrics read_metrics returned; the points of an entry are the
\* returned metrics of that name in the order returned, so there are as
\* many points as metrics returned.
C14_LoadGrouping ==
    (ld.called /\ ld.result.status = "Ok")
        => LET out == ld.result.metrics
               ms == ld.read.metrics
           IN  /\ {out[g].identifier : g \in 1..Len(out)} = {ms[k].name : k \in 1..Len(ms)}
               /\ \A g, g2 \in 1..Len(out) :
                     out[g].identifier = out[g2].identifier => g = g2
               /\ \A g \in 1..Len(out) :
                     LET idx == PositionsOf(ms, out[g].identifier)
                         tv == out[g].time_values
                     IN  /\ Len(tv) = Cardinality(idx)
                         /\ \A i \in 1..Len(tv) :
                               /\ tv[i].value = Some(ms[Nth(idx, i)].value)
                               /\ tv[i].when = Some(ToProto(ms[Nth(idx, i)].when))
               /\ TotalPoints(out) = Len(ms)

\* two metrics of one name with different instants were read and came
\* back as one entry of two points
C14_Witness ==
    /\ ld.called /\ ld.result.status = "Ok"
    /\ Len(ld.read.metrics) = 2
    /\ ld.read.metrics[1].name = ld.read.metrics[2].name
    /\ ld.read.metrics[1].when # ld.read.metrics[2].when
    /\ Len(ld.result.metrics) = 1
    /\ Len(ld.result.metrics[1].time_values) = 2

\* metrics of two names were read and came back as two entries
C14_WitnessTwoNames ==
    /\ ld.called /\ ld.result.status = "Ok"
    /\ Len(ld.read.metrics) = 2
    /\ Len(ld.result.metrics) = 2

\* C15: every step keeps the rows stored so far in place and unchanged and
\* keeps every ledger name; a step of read_metrics, LoadMetrics, ListMetrics
\* or Applier.applied leaves the tables, the ledger and the schema as they
\* were.
C15_AppendOnlyStore ==
    [][/\ IsPrefix(rows, rows')
       /\ ledger \subseteq ledger'
       /\ (\/ rd'.called /\ rd' # rd
           \/ ld'.called /\ ld' # ld
           \/ ls'.called /\ ls' # ls
           \/ \E p \in MigProcs : mig[p].pc = "applied" /\ mig'[p] # mig[p])
              => /\ rows' = rows
                 /\ ledger' = ledger
                 /\ schema' = schema
                 /\ tracking' = tracking]_vars

\* two rows are stored and the three queries have run on them while a
\* migrate call stands before its apply or its mark_applied statement
C15_Witness ==
    /\ Len(rows) = 2
    /\ \E h \in Handlers : rec[h].result = "Ok"
    /\ rd.called /\ ld.called /\ ls.called
    /\ Len(ld.tbl) = 2
    /\ \E p \in MigProcs : mig[p].pc \in {"apply", "mark"}

\* a migrate call that began with rows stored has run to its end, and the
\* rows are in place
C15_WitnessLater ==
    \E p \in MigProcs :
        /\ mig[p].rows0 # <<>>
        /\ Returned(mig[p])
        /\ IsPrefix(mig[p].rows0, rows)

\* the migration a call is applying or marking
Current(c) == c.files[c.i + 1]

\* C16: a step runs the statement of one caller only; the step that
\* applies n leaves n executed and the ledger as it was, so that while n is
\* not yet recorded another caller's applied() returns a ledger without n
\* although n's schema change is in place, and a stop between apply(n) and
\* mark_applied(n) leaves n executed but unrecorded.
C16_LockGranularity ==
    [][\A p \in MigProcs :
          /\ \A q \in MigProcs \ {p} : mig'[p] = mig[p] \/ mig'[q] = mig[q]
          /\ (mig[p].pc = "apply" /\ mig'[p].pc = "mark")
                => /\ Current(mig[p]) \in schema'
                   /\ ledger' = ledger
          /\ (mig[p].pc = "mark" /\ Current(mig[p]) \notin ledger)
                => /\ Current(mig[p]) \in schema
                   /\ \A q \in MigProcs \ {p} :
                         (mig[q].pc = "applied" /\ mig'[q].pc = "loop")
                            => Current(mig[p]) \notin Range(mig'[q].applied_migrations)
                   /\ mig'[p].result = "Stopped"
                         => /\ Current(mig[p]) \in schema'
                            /\ Current(mig[p]) \notin ledger']_vars

\* a caller stands between apply("1") and mark_applied("1"); the other
\* caller began after the apply and its applied() returned no name
C16_Witness ==
    \E p \in MigProcs : \E q \in MigProcs \ {p} :
        /\ mig[p].pc = "mark" /\ Current(mig[p]) = <<49>>
        /\ <<49>> \notin ledger
        /\ <<49>> \in mig[q].schema0
        /\ mig[q].pc = "loop"
        /\ mig[q].applied_migrations = <<>>

\* a call was stopped between apply("1") and mark_applied("1")
C16_WitnessStopped ==
    \E p \in MigProcs :
        /\ mig[p].result = "Stopped"
        /\ mig[p].log = << <<"apply", <<49>> >> >>
        /\ <<49>> \in schema /\ <<49>> \notin ledger

\* the next step of the record_metrics call c is a write_metric call
WritesNext(c) ==
    /\ c.pc = "loop" /\ c.k < Len(c.req)
    /\ c.req[c.k + 1].value # None
    /\ c.req[c.k + 1].when # None => ~ConversionPanics(Unwrap(c.req[c.k + 1].when))

\* C17: once the lock is poisoned it stays poisoned; every later setup,
\* applied, apply, mark_applied, write_metric and read_metrics (also those
\* made by the service's calls) returns a storage error without running its
\* statement, and the tables, the ledger and the schema never change again.
C17_PoisonedLock ==
    [][poisoned =>
         /\ poisoned'
         /\ rows' = rows /\ ledger' = ledger /\ schema' = schema
         /\ tracking' = tracking /\ applyCalls' = applyCalls
         /\ \A p \in MigProcs :
               (mig[p].pc \in {"setup", "applied", "apply", "mark"} /\ mig'[p] # mig[p])
                  => /\ mig'[p].pc = "idle"
                     /\ mig'[p].result \in {"StorageError", "Stopped"}
         /\ \A h \in Handlers :
               (WritesNext(rec[h]) /\ rec'[h] # rec[h])
                  => /\ rec'[h].pc = "idle"
                     /\ rec'[h].result = "Internal"
                     /\ rec'[h].k = rec[h].k
         /\ (rd'.called /\ rd' # rd) => ~rd'.result.ok
         /\ (ld'.called /\ ld' # ld) => ld'.result.status = "Internal"
         /\ (ls'.called /\ ls' # ls) => ls'.result.status = "Internal"]_vars

\* the lock was poisoned after one entry of a batch was stored: the next
\* write and the queries failed
C17_Witness ==
    /\ poisoned
    /\ Serving /\ TableExists(schema)
    /\ \E h \in Handlers : rec[h].result = "Internal" /\ rec[h].k = 1
    /\ rd.called /\ ~rd.result.ok
    /\ ld.called /\ ld.result.status = "Internal"
    /\ ls.called /\ ls.result.status = "Internal"
    /\ Len(rows) = 1

\* the lock was poisoned between apply("1") and mark_applied("1") of
\* setup's migrate call, which returned the storage error
C17_WitnessMigrate ==
    /\ poisoned
    /\ \E p \in MigProcs :
          /\ mig[p].result = "StorageError"
          /\ mig[p].log = << <<"apply", <<49>> >>, <<"mark_applied", <<49>> >> >>
    /\ ledger = {} /\ schema = {<<49>>}

\* the applier calls a migrate call makes when nothing fails: apply and
\* then mark_applied for each file from index `from` (0-based) on
RECURSIVE Protocol(_, _)
Protocol(fs, from) ==
    IF from >= Len(fs) THEN <<>>
    ELSE << <<"apply", fs[from + 1]>>, <<"mark_applied", fs[from + 1]>> >>
         \o Protocol(fs, from + 1)

\* C18: the apply and mark_applied calls of a migrate call follow the
\* protocol apply(n), mark_applied(n) over the pending files in order and
\* stop where the call ends: applies come in strictly increasing name order,
\* mark_applied(n) directly follows a successful apply(n), a call that
\* returns an error has made no call for a later file, and a call returns
\* Ok only after the whole protocol.
C18_ApplyMarkProtocol ==
    \A p \in MigProcs :
        LET c == mig[p]
            expected == Protocol(c.files, Len(c.applied_migrations))
        IN  /\ IsPrefix(c.log, expected)
            /\ \A j, k \in 1..Len(c.log) :
                  (j < k /\ c.log[j][1] = "apply" /\ c.log[k][1] = "apply")
                      => StrLess(c.log[j][2], c.log[k][2])
            /\ \A k \in 1..Len(c.log) :
                  c.log[k][1] = "mark_applied"
                      => /\ k > 1 /\ c.log[k - 1] = <<"apply", c.log[k][2]>>
                         /\ c.log[k][2] \in schema
            /\ (Returned(c) /\ c.result = "Ok") => c.log = expected
            /\ (Returned(c) /\ c.result # "Ok" /\ ~MismatchAt(c))
                  => /\ c.i < Len(c.files)
                     /\ \A k \in 1..Len(c.log) :
                           c.log[k][2] \in {c.files[j] : j \in 1..(c.i + 1)}
                     /\ c.result \in {"EncodingError", "MissingFileError"}
                           => \A k \in 1..Len(c.log) : c.log[k][2] # Current(c)
            /\ (Returned(c) /\ c.log # <<>> /\ c.log[Len(c.log)][1] = "apply")
                  => c.result = "StorageError"

\* a call applied and marked "1" and "10" in this order and then failed to
\* decode "2"
C18_Witness ==
    \E p \in MigProcs :
        /\ mig[p].result = "EncodingError"
        /\ mig[p].log = << <<"apply", <<49>> >>, <<"mark_applied", <<49>> >>,
                           <<"apply", <<49, 48>> >>, <<"mark_applied", <<49, 48>> >> >>

\* s is a subsequence of t
RECURSIVE IsSubSeq(_, _)
IsSubSeq(s, t) ==
    IF s = <<>> THEN TRUE
    ELSE IF t = <<>> THEN FALSE
    ELSE IF Head(s) = Head(t) THEN IsSubSeq(Tail(s), Tail(t))
    ELSE IsSubSeq(s, Tail(t))

\* the rows of the first n entries of the call c, in request order
RowsOfCall(c, n) == [j \in 1..n |-> RowOf(MetricOf(c.req[j], c.current_time))]

\* no entry of the request has a missing value or a timestamp that cannot
\* be converted
WellFormed(req) ==
    \A j \in 1..Len(req) :
        /\ req[j].value # None
        /\ req[j].when # None => ~ConversionPanics(Unwrap(req[j].when))

\* C19: a record_metrics call writes its entries one at a time in request
\* order; when a write fails the call returns an error, the rows of the
\* entries before it stay stored and no later entry is written; when no
\* entry fails every entry is stored, in request order, and the call
\* succeeds.
C19_RecordOrdering ==
    [][\A h \in Handlers :
          LET c == rec[h] IN
          /\ IsSubSeq(RowsOfCall(c, c.k), SubSeq(rows, Len(c.rows0) + 1, Len(rows)))
          /\ c.result = "Ok" => c.k = Len(c.req)
          /\ c.result = "Internal" => c.k < Len(c.req)
          /\ (c.pc = "idle" /\ rows' # rows)
                => \E g \in Handlers \ {h} :
                      WritesNext(rec[g]) /\ rec'[g].k = rec[g].k + 1
          /\ (WritesNext(c) /\ rec'[h] # c)
                => IF poisoned
                   THEN /\ rec'[h].pc = "idle" /\ rec'[h].result = "Internal"
                        /\ rows' = rows
                   ELSE /\ rec'[h].k = c.k + 1 /\ rec'[h].pc = "loop"
                        /\ rows' = rows \o SubSeq(RowsOfCall(c, c.k + 1), c.k + 1, c.k + 1)
          /\ (c.pc = "loop" /\ c.k = Len(c.req) /\ rec'[h] # c)
                => /\ rec'[h].result = "Ok"
                   /\ rows' = rows
          /\ (c.pc = "idle" /\ c.result # "none" /\ WellFormed(c.req)
               /\ c.result # "Internal")
                => c.result = "Ok"]_vars

\* the second write of a batch failed: the call returned the error and the
\* row of the first entry is stored
C19_Witness ==
    \E h \in Handlers :
        /\ rec[h].result = "Internal"
        /\ rec[h].k = 1 /\ Len(rec[h].req) = 2
        /\ rows = rec[h].rows0 \o RowsOfCall(rec[h], 1)

\* two calls that ran at the same time each stored their entry and
\* succeeded
C19_WitnessInterleaved ==
    /\ \A h \in Handlers :
          rec[h].result = "Ok" /\ rec[h].k = 1 /\ rec[h].rows0 = <<>>
    /\ Len(rows) = 2

\* the points a LoadMetrics response carries for the one name written
PointsSeen(out) == IF out = <<>> THEN <<>> ELSE out[1].time_values

\* the points of the first n entries of the call c, in request order
PointsOfCall(c, n) == [j \in 1..n |-> TimeValue(MetricOf(c.req[j], c.current_time))]

\* the latest instant among the rows stored before the call c and its
\* first n entries
LastSeen(c, n) ==
    LET ts == {Unwrap(parse_from_rfc3339(c.rows0[j].time)) : j \in 1..Len(c.rows0)}
              \cup {MetricOf(c.req[j], c.current_time).when : j \in 1..n}
    IN  CHOOSE t \in ts : \A u \in ts : ~TimeLess(t, u)

\* C20: a LoadMetrics or ListMetrics call that runs while a RecordMetrics
\* call is between two of its writes sees, after the rows stored before
\* the batch, the entries the batch has written so far: a prefix of the
\* batch in request order, never an entry without those before it.
C20_BatchVisibility ==
    \A h \in Handlers :
        LET c == rec[h] IN
        c.result # "none"
            => /\ (ld.called /\ ld.result.status = "Ok")
                    => LET pts == PointsSeen(ld.result.metrics)
                       IN  /\ Len(ld.result.metrics) <= 1
                           /\ Len(pts) = Len(c.rows0) + c.k
                           /\ SubSeq(pts, Len(c.rows0) + 1, Len(pts)) = PointsOfCall(c, c.k)
               /\ (ls.called /\ ls.result.status = "Ok")
                    => LET out == ls.result.metrics
                       IN  IF Len(c.rows0) + c.k = 0 THEN out = <<>>
                           ELSE /\ Len(out) = 1
                                /\ out[1].last_timestamp = Some(ToProto(LastSeen(c, c.k)))

\* a LoadMetrics call ran between the two writes of a batch and returned
\* the first entry without the second
C20_Witness ==
    \E h \in Handlers :
        /\ rec[h].pc = "loop" /\ rec[h].k = 1 /\ Len(rec[h].req) = 2
        /\ WritesNext(rec[h])
        /\ ld.called /\ ld.result.status = "Ok"
        /\ PointsSeen(ld.result.metrics) = PointsOfCall(rec[h], 1)
        /\ ls.called /\ ls.result.status = "Ok"

\* the call has executed mark_applied(n)
Marked(c, n) == \E k \in 1..Len(c.log) : c.log[k] = <<"mark_applied", n>>

\* the call's mark_applied(n) failed: it was the call's last statement and
\* the call returned the storage error
FailedMark(c, n) ==
    /\ c.pc = "idle" /\ c.result = "StorageError"
    /\ c.log # <<>> /\ c.log[Len(c.log)] = <<"mark_applied", n>>

\* the call's mark_applied(n) inserted n into the ledger
Recorded(c, n) == Marked(c, n) /\ ~FailedMark(c, n)

\* two migrate calls of one build on one connection
RacingCalls ==
    \A n \in MigrationNames : \A p \in MigProcs : \A q \in MigProcs \ {p} :
        /\ ~(Recorded(mig[p], n) /\ Recorded(mig[q], n))
        /\ Recorded(mig[p], n) => n \in ledger
        /\ (Marked(mig[p], n) /\ Marked(mig[q], n))
              => \E r \in {p, q} : FailedMark(mig[r], n) /\ Returned(mig[r])

\* C21: when two migrate calls of the same files interleave at statement
\* boundaries, a mark_applied inserts a name only while the ledger lacks
\* it and adds that one name; a name both calls mark is recorded by one
\* of them while the other's mark_applied fails and that call returns the
\* error; and the sorted ledger stays an ordered prefix of the sorted files.
C21_ConcurrentMigrate ==
    /\ RacingCalls
    /\ IsPrefix(AppliedSorted(ledger), SortedFiles(Build))
    /\ [][/\ RacingCalls'
          /\ IsPrefix(AppliedSorted(ledger'), SortedFiles(Build))
          /\ \A p \in MigProcs :
                (mig[p].pc = "mark" /\ mig'[p].pc = "loop")
                    => /\ Current(mig[p]) \notin ledger
                       /\ ledger' = ledger \cup {Current(mig[p])}
          /\ ledger' # ledger
                => \E p \in MigProcs :
                      /\ mig[p].pc = "mark" /\ mig'[p].pc = "loop"
                      /\ Cardinality(ledger') = Cardinality(ledger) + 1]_vars

\* both calls applied "10" and ran mark_applied("10"): one recorded it and
\* went on, the other returned the storage error
C21_Witness ==
    \E p \in MigProcs : \E q \in MigProcs \ {p} :
        /\ Recorded(mig[p], <<49, 48>>)
        /\ FailedMark(mig[q], <<49, 48>>)
        /\ Calls(mig[q], "apply", <<49, 48>>) = 1
        /\ mig[q].result = "StorageError"
        /\ ledger = {<<49>>, <<49, 48>>}

====
